---- MODULE Spec2Model ----
(***************************************************************************)
(* The RabbitMQ -> MongoDB consumer (src/src/consumer.js) as a state       *)
(* machine: the consumer processes with their startup sequence, their      *)
(* broker connections and reconnect timers, the per-message handler        *)
(* processMessage, and the broker queue and the store collection they act  *)
(* on.                                                                     *)
(***************************************************************************)
EXTENDS Naturals, Sequences, FiniteSets, Bags

\* ------------------------------------------------------------ bounds
MaxMsgs == 2      \* messages published in one run
MaxFaults == 1    \* outages and connection losses in one run
MaxStops == 1     \* shutdown signals in one run
MaxTime == 2      \* last value of the wall clock (seconds)
MaxPolls == 2     \* polls of the viewer in one run
MaxOps == 3       \* largest numOperations given to the test worker
MaxConcurrency == 2  \* largest concurrency given besides the default

\* ------------------------------------------------------------ constants
PrefetchCount == 1
DefaultConcurrency == 5   \* parseInt(process.env.CONCURRENCY || '5')

AllConsumers == {"c1", "c2"}

\* Message bodies as the raw text the broker hands over.
BodyNotJson == "not json"
BodyInsert == "{database:sample_db,table:users,type:insert,data:{id:1},ts:1000}"
BodyBare == "{data:{id:2}}"
Bodies == {BodyNotJson, BodyInsert, BodyBare}

NoFields == [k \in {} |-> 0]

VARIABLES
    instances,   \* the consumer processes of this deployment
    now,         \* the wall clock at its last reading, seconds (Date.now() / 1000)
    brokerUp,    \* the broker accepts connections
    storeUp,     \* the store accepts connections and writes
    faults,      \* outages and connection losses so far, and shutdown signals so far
    topo,        \* broker topology declared so far: exchange, queue, binding
    msgs,        \* published messages: body, broker-side state, holder, redelivered flag
    store,       \* the collection: documents in insertion order
    indexes,     \* indexes of the collection
    pc,          \* per process: position of main()
    rabbit,      \* per process: the running calls of connectToRabbitMQ
    timers,      \* per process: pending setTimeout(connectToRabbitMQ, 5000)
    sub,         \* per process: the channel main() consumes on, and its prefetch limit
    idle,        \* per process: open connections that timer-started calls returned
    inflight,    \* per process: processMessage calls waiting for insertOne
    done,        \* per process: the calls made by the last completed processMessage
    exit,        \* per process: how it ended: cause, exit status, the handler's close calls
    firstStamp,  \* per message: received_at stamped by its first successful parse (0: none)
    insertFailed,\* messages for which an insertOne has failed
    lostUnacked, \* messages that were unacknowledged when their consumer's connection dropped
    stopUnacked, \* messages that were unacknowledged when shutdown closed the connection
    landedAtOutage, \* messages a write of which the store applied as it went down
    viewer,      \* the tailing viewer: position of monitorChanges, lastCheckTime, currentTime
    polls,       \* the polls the viewer has made: what each selected
    worker       \* the test worker: its arguments and the position of its batch loop

brokerVars == <<brokerUp, topo, msgs>>
storeVars == <<storeUp, store, indexes>>
connVars == <<idle, rabbit, timers>>
procVars == <<inflight, done, exit>>
histVars == <<firstStamp, insertFailed, lostUnacked, stopUnacked, landedAtOutage>>
sideVars == <<viewer, polls, worker>>
vars == <<instances, now, faults, brokerVars, storeVars, pc, connVars, sub, procVars, histVars,
          sideVars>>

\* ------------------------------------------------------------ pure functions

\* JSON.parse(message.content.toString()): ok = FALSE when it throws.
JsonParse(body) ==
    CASE body = BodyNotJson -> [ok |-> FALSE, value |-> NoFields]
      [] body = BodyInsert ->
            [ok |-> TRUE,
             value |-> [database |-> "sample_db", table |-> "users", type |-> "insert",
                        data |-> [id |-> 1], ts |-> 1000]]
      [] body = BodyBare ->
            [ok |-> TRUE, value |-> [data |-> [id |-> 2]]]

\* Mutant: the stamp replaces the parsed content instead of being added to it.
StampReplacesContent(content, t) == [k \in {"received_at"} |-> t]

\* Mutant: the stamp is left in milliseconds.
StampMillis(content, t) ==
    [k \in DOMAIN content \cup {"received_at"} |->
        IF k = "received_at" THEN t * 1000 ELSE content[k]]

\* content.received_at = Date.now() / 1000
Stamp(content, t) ==
    [k \in DOMAIN content \cup {"received_at"} |->
        IF k = "received_at" THEN t ELSE content[k]]

\* content.<field> || 'unknown'
FieldOr(content, k) == IF k \in DOMAIN content THEN content[k] ELSE "unknown"

\* Mutant: the log line reads the fields without a default and throws on a
\* message that lacks one.
LogEventStrict(content) ==
    [ok |-> {"type", "database", "table"} \subseteq DOMAIN content,
     line |-> <<FieldOr(content, "type"), FieldOr(content, "database"),
                FieldOr(content, "table")>>]

\* The log line processMessage writes after a successful insert:
\* `Processed ${type} event for ${database}.${table}`; it never throws.
LogEvent(content) ==
    [ok |-> TRUE,
     line |-> <<FieldOr(content, "type"), FieldOr(content, "database"),
                FieldOr(content, "table")>>]

Min(S) == CHOOSE x \in S : \A y \in S : x <= y

Range(s) == {s[i] : i \in 1..Len(s)}

\* ------------------------------------------------------------ processMessage

\* Mutant: the message is acknowledged on receipt, before any insert.
ProcessStartAckFirst(body, t) ==
    LET p == JsonParse(body) IN
    IF ~p.ok
    THEN [calls |-> <<"parse:throw">>, then |-> "nack", content |-> NoFields]
    ELSE [calls |-> <<"parse:ok">>, then |-> "ack", content |-> Stamp(p.value, t)]

\* Mutant: a message that does not parse is acknowledged, that is dropped.
ProcessStartDropsMalformed(body, t) ==
    LET p == JsonParse(body) IN
    IF ~p.ok
    THEN [calls |-> <<"parse:throw">>, then |-> "ack", content |-> NoFields]
    ELSE [calls |-> <<"parse:ok">>, then |-> "insertOne", content |-> Stamp(p.value, t)]

\* The synchronous part of processMessage, up to the call of insertOne: the calls
\* made so far and what comes next (the insert, or the catch block's nack).
ProcessStart(body, t) ==
    LET p == JsonParse(body) IN
    IF ~p.ok
    THEN [calls |-> <<"parse:throw">>, then |-> "nack", content |-> NoFields]
    ELSE [calls |-> <<"parse:ok">>, then |-> "insertOne",
          content |-> Stamp(p.value, t)]

\* Mutant: processMessage nacks whatever insertOne did.
ProcessResumeNackAlways(inserted) == "nack"

\* Mutant: the catch block acknowledges too.
ProcessResumeAckAlways(inserted) == "ack"

\* The channel call processMessage makes once insertOne has settled: ack after a
\* successful insert, the catch block's nack after a failed one.
ProcessResume(inserted) == IF inserted THEN "ack" ELSE "nack"

\* The channel calls of one processMessage from its first one on. channel.ack and
\* channel.nack throw on a closed channel; an ack that throws inside the try block
\* lands in the catch block, which calls nack; a nack that throws rejects the
\* promise, which the consume callback's .catch logs.
Settle(first, open) ==
    IF first = "ack"
    THEN IF open THEN <<"ack:ok">> ELSE <<"ack:throw", "nack:throw">>
    ELSE IF open THEN <<"nack:ok">> ELSE <<"nack:throw">>

\* Mutant: the nack is sent without requeue, and the broker discards the message.
ApplyCallsNoRequeue(ms, m, calls) ==
    IF "ack:ok" \in Range(calls)
    THEN [ms EXCEPT ![m].state = "acked", ![m].holder = "none"]
    ELSE IF "nack:ok" \in Range(calls)
    THEN [ms EXCEPT ![m].state = "discarded", ![m].holder = "none"]
    ELSE ms

\* The broker's side of the channel calls on message m: an ack removes it from
\* the queue, a nack with requeue puts it back at its place, flagged redelivered.
ApplyCalls(ms, m, calls) ==
    IF "ack:ok" \in Range(calls)
    THEN [ms EXCEPT ![m].state = "acked", ![m].holder = "none"]
    ELSE IF "nack:ok" \in Range(calls)
    THEN [ms EXCEPT ![m].state = "ready", ![m].holder = "none", ![m].redelivered = TRUE]
    ELSE ms

\* ------------------------------------------------------------ state helpers

\* The channel main() consumes on is usable: its connection is open.
ChannelOpen(c) == sub[c].chan = "open"

\* Mutant: the queue hands a message out again while a consumer holds it.
ReadyWhileHeld == {m \in 1..Len(msgs) : msgs[m].state \in {"ready", "unacked"}}

\* The messages the queue may hand out: each goes to one consumer at a time.
Ready == {m \in 1..Len(msgs) : msgs[m].state = "ready"}

UnackedBy(c) == {m \in 1..Len(msgs) : msgs[m].state = "unacked" /\ msgs[m].holder = c}

\* Mutant: the broker keeps a delivery on a closed channel as held.
RequeueNothing(ms, cs) == ms

\* The broker requeues what the consumers in cs held unacknowledged.
Requeue(ms, cs) ==
    [m \in 1..Len(ms) |->
        IF ms[m].state = "unacked" /\ ms[m].holder \in cs
        THEN [ms[m] EXCEPT !.state = "ready", !.holder = "none", !.redelivered = TRUE]
        ELSE ms[m]]

\* rabbit[c] is the bag of the running calls of connectToRabbitMQ in process c:
\* for each its position, the state of the connection its current attempt opened
\* ("none" before amqp.connect has resolved), and whether main() awaits it.
Running(c) == BagToSet(rabbit[c])

Moved(c, r, r2) == [rabbit EXCEPT ![c] = (@ (-) SetToBag({r})) (+) SetToBag({r2})]

ConnClosed(r) == IF r.conn = "open" THEN [r EXCEPT !.conn = "closed"] ELSE r

OpenIn(c) == {r \in Running(c) : r.conn = "open"}

\* The number of broker connections process c holds open: those of its running
\* calls of connectToRabbitMQ, the one main() consumes on, and those returned to
\* nobody.
OpenCount(c) ==
    BagCardinality([r \in OpenIn(c) |-> rabbit[c][r]])
        + (IF sub[c].chan = "open" THEN 1 ELSE 0) + idle[c]

\* The entry of the collection that insertOne of r writes: the document, and for
\* the record the message it came from, the process that wrote it and the time
\* the message was delivered.
Written(c, r) == [doc |-> r.content, msg |-> r.msg, by |-> c, parsedAt |-> r.parsedAt]

NoFaults == [live |-> 0, stops |-> 0]
NoSub == [chan |-> "none", prefetch |-> 0]
NoDone == [msg |-> 0, redelivered |-> FALSE, calls |-> <<>>]
NoExit == [cause |-> "none", code |-> 0, calls |-> <<>>]
NoViewer == [pc |-> "off", lastCheckTime |-> 0, currentTime |-> 0, startLen |-> 0]
NoWorker == [pc |-> "off"]

\* Mutant: only the 'error' handler arms a reconnect timer.
ReconnectsArmedOnErrorOnly(events) ==
    Cardinality({i \in 1..Len(events) : events[i] = "error"})

\* The timers armed when a connection emits the given events: the 'error' handler
\* and the 'close' handler each call setTimeout(connectToRabbitMQ, 5000).
ReconnectsArmed(events) == Len(events)

\* ------------------------------------------------------------ initial state

\* Nothing has run yet: no process started, broker and store up and empty.
NothingRun ==
    /\ now = 1
    /\ brokerUp = TRUE
    /\ storeUp = TRUE
    /\ faults = NoFaults
    /\ topo = {}
    /\ msgs = <<>>
    /\ store = <<>>
    /\ indexes = {}
    /\ pc = [c \in AllConsumers |-> "off"]
    /\ idle = [c \in AllConsumers |-> 0]
    /\ rabbit = [c \in AllConsumers |-> EmptyBag]
    /\ timers = [c \in AllConsumers |-> 0]
    /\ sub = [c \in AllConsumers |-> NoSub]
    /\ inflight = [c \in AllConsumers |-> {}]
    /\ done = [c \in AllConsumers |-> NoDone]
    /\ exit = [c \in AllConsumers |-> NoExit]
    /\ firstStamp = [m \in 1..MaxMsgs |-> 0]
    /\ insertFailed = {}
    /\ lostUnacked = {}
    /\ stopUnacked = {}
    /\ landedAtOutage = {}
    /\ viewer = NoViewer
    /\ polls = <<>>

\* A deployment of one consumer process.
Init == instances = {"c1"} /\ NothingRun /\ worker = NoWorker

\* A deployment of two consumer processes on the same queue.
InitTwo == instances = AllConsumers /\ NothingRun /\ worker = NoWorker

\* ------------------------------------------------------------ environment

\* The producer publishes one message to the fanout exchange, which routes it to
\* the bound queue. (A message published before the queue is bound reaches no
\* queue; msgs holds the messages that reached the queue.)
Publish(body) ==
    /\ brokerUp
    /\ "binding" \in topo
    /\ Len(msgs) < MaxMsgs
    /\ msgs' = Append(msgs, [body |-> body, state |-> "ready", holder |-> "none",
                             redelivered |-> FALSE])
    /\ UNCHANGED <<sideVars, instances, now, faults, brokerUp, topo, storeVars, pc, connVars, sub,
                   procVars, histVars>>

StoreStop ==
    /\ storeUp
    /\ faults.live < MaxFaults
    /\ storeUp' = FALSE
    /\ faults' = [faults EXCEPT !.live = @ + 1]
    /\ UNCHANGED <<sideVars, instances, now, brokerVars, store, indexes, pc, connVars, sub, procVars,
                   histVars>>

\* The store goes down under a write: it has applied the insert of r, and the
\* reply never reaches the driver, whose insertOne is going to reject.
StoreStopMidWrite(c, r) ==
    /\ storeUp
    /\ faults.live < MaxFaults
    /\ r \in inflight[c]
    /\ ~r.written
    /\ storeUp' = FALSE
    /\ faults' = [faults EXCEPT !.live = @ + 1]
    /\ store' = Append(store, Written(c, r))
    /\ inflight' = [inflight EXCEPT ![c] = (@ \ {r}) \cup {[r EXCEPT !.written = TRUE]}]
    /\ landedAtOutage' = landedAtOutage \cup {r.msg}
    /\ UNCHANGED <<sideVars, instances, now, brokerVars, indexes, pc, connVars, sub, done, exit,
                   firstStamp, insertFailed, lostUnacked, stopUnacked>>

StoreStart ==
    /\ ~storeUp
    /\ storeUp' = TRUE
    /\ UNCHANGED <<sideVars, instances, now, faults, brokerVars, store, indexes, pc, connVars, sub,
                   procVars, histVars>>

\* The broker becomes unreachable: it closes every connection (each fires its
\* 'close' handler, which arms a reconnect timer) and requeues what was unacknowledged.
BrokerStop ==
    /\ brokerUp
    /\ faults.live < MaxFaults
    /\ brokerUp' = FALSE
    /\ faults' = [faults EXCEPT !.live = @ + 1]
    /\ rabbit' = [c \in AllConsumers |-> BagOfAll(ConnClosed, rabbit[c])]
    /\ sub' = [c \in AllConsumers |->
                  IF sub[c].chan = "open" THEN [sub[c] EXCEPT !.chan = "closed"] ELSE sub[c]]
    /\ idle' = [c \in AllConsumers |-> 0]
    /\ timers' = [c \in AllConsumers |->
                     timers[c] + OpenCount(c) * ReconnectsArmed(<<"close">>)]
    /\ lostUnacked' = lostUnacked \cup UNION {UnackedBy(c) : c \in AllConsumers}
    /\ msgs' = Requeue(msgs, AllConsumers)
    /\ UNCHANGED <<sideVars, instances, now, topo, storeVars, pc, procVars, firstStamp, insertFailed,
                   stopUnacked, landedAtOutage>>

BrokerStart ==
    /\ ~brokerUp
    /\ brokerUp' = TRUE
    /\ UNCHANGED <<sideVars, instances, now, faults, topo, msgs, storeVars, pc, connVars, sub,
                   procVars, histVars>>

\* A transport error on a connection of process c: the connection fires 'error'
\* and then 'close', and each handler arms a reconnect timer. Here the
\* connection main() consumes on: the broker requeues what its channel held
\* unacknowledged.
NetworkErrorOnChannel(c) ==
    /\ sub[c].chan = "open"
    /\ faults.live < MaxFaults
    /\ faults' = [faults EXCEPT !.live = @ + 1]
    /\ sub' = [sub EXCEPT ![c].chan = "closed"]
    /\ timers' = [timers EXCEPT ![c] = @ + ReconnectsArmed(<<"error", "close">>)]
    /\ lostUnacked' = lostUnacked \cup UnackedBy(c)
    /\ msgs' = Requeue(msgs, {c})
    /\ UNCHANGED <<sideVars, instances, now, brokerUp, topo, storeVars, pc, rabbit, idle, procVars,
                   firstStamp, insertFailed, stopUnacked, landedAtOutage>>

\* A transport error on the connection a running call of connectToRabbitMQ has opened.
NetworkErrorOnCall(c, r) ==
    /\ r \in Running(c)
    /\ r.conn = "open"
    /\ faults.live < MaxFaults
    /\ faults' = [faults EXCEPT !.live = @ + 1]
    /\ rabbit' = Moved(c, r, ConnClosed(r))
    /\ timers' = [timers EXCEPT ![c] = @ + ReconnectsArmed(<<"error", "close">>)]
    /\ UNCHANGED <<sideVars, instances, now, brokerVars, storeVars, pc, sub, idle, procVars, histVars>>

\* A transport error on an open connection that was returned to nobody.
NetworkErrorOnIdle(c) ==
    /\ idle[c] > 0
    /\ faults.live < MaxFaults
    /\ faults' = [faults EXCEPT !.live = @ + 1]
    /\ idle' = [idle EXCEPT ![c] = @ - 1]
    /\ timers' = [timers EXCEPT ![c] = @ + ReconnectsArmed(<<"error", "close">>)]
    /\ UNCHANGED <<sideVars, instances, now, brokerVars, storeVars, pc, sub, rabbit, procVars,
                   histVars>>

\* ------------------------------------------------------------ main(): startup

Start(c) ==
    /\ c \in instances
    /\ pc[c] = "off"
    /\ pc' = [pc EXCEPT ![c] = "mongo_connect"]
    /\ UNCHANGED <<sideVars, instances, now, faults, brokerVars, storeVars, connVars, sub, procVars,
                   histVars>>

\* connectToMongoDB: client.connect()
MongoConnect(c) ==
    /\ pc[c] = "mongo_connect"
    /\ pc' = [pc EXCEPT ![c] = IF storeUp THEN "mongo_index1" ELSE "mongo_wait"]
    /\ UNCHANGED <<sideVars, instances, now, faults, brokerVars, storeVars, connVars, sub, procVars,
                   histVars>>

IndexOf(step) ==
    CASE step = "mongo_index1" -> "database_table"
      [] step = "mongo_index2" -> "data.id"
      [] step = "mongo_index3" -> "ts"

\* Mutant: connectToMongoDB returns after the second index.
AfterIndexSkipsLast(step) ==
    CASE step = "mongo_index1" -> "mongo_index2"
      [] step = "mongo_index2" -> "rabbit"
      [] step = "mongo_index3" -> "rabbit"

AfterIndex(step) ==
    CASE step = "mongo_index1" -> "mongo_index2"
      [] step = "mongo_index2" -> "mongo_index3"
      [] step = "mongo_index3" -> "rabbit"

\* connectToMongoDB: the three createIndex calls, then the return to main(), which
\* calls connectToRabbitMQ.
MongoCreateIndex(c) ==
    /\ pc[c] \in {"mongo_index1", "mongo_index2", "mongo_index3"}
    /\ IF storeUp
       THEN /\ indexes' = indexes \cup {IndexOf(pc[c])}
            /\ pc' = [pc EXCEPT ![c] = AfterIndex(pc[c])]
            /\ rabbit' = IF pc[c] = "mongo_index3"
                         THEN [rabbit EXCEPT ![c] =
                                 SetToBag({[step |-> "connect", conn |-> "none",
                                            main |-> TRUE]})]
                         ELSE rabbit
       ELSE /\ pc' = [pc EXCEPT ![c] = "mongo_wait"]
            /\ UNCHANGED <<indexes, rabbit>>
    /\ UNCHANGED <<sideVars, instances, now, faults, brokerVars, storeUp, store, idle, timers, sub,
                   procVars, histVars>>

\* connectToMongoDB: the 5 second wait of the catch block, then the next attempt.
MongoRetryWait(c) ==
    /\ pc[c] = "mongo_wait"
    /\ pc' = [pc EXCEPT ![c] = "mongo_connect"]
    /\ UNCHANGED <<sideVars, instances, now, faults, brokerVars, storeVars, connVars, sub, procVars,
                   histVars>>

\* ------------------------------------------------------------ connectToRabbitMQ

Thrown(r) == [r EXCEPT !.step = "wait", !.conn = "none"]

\* amqp.connect, and on success the registration of the 'error' and 'close' handlers.
RabbitConnect(c, r) ==
    /\ r \in Running(c)
    /\ r.step = "connect"
    /\ rabbit' = Moved(c, r, IF brokerUp
                             THEN [r EXCEPT !.step = "createChannel", !.conn = "open"]
                             ELSE Thrown(r))
    /\ UNCHANGED <<sideVars, instances, now, faults, brokerVars, storeVars, pc, idle, timers, sub,
                   procVars, histVars>>

\* Mutant: a step that fails is passed over, and the call goes on.
StepOnIgnoresFailure(r, next) == [r EXCEPT !.step = next]

\* A step of connectToRabbitMQ on its connection: it succeeds on an open
\* connection and throws into the catch block on a closed one.
StepOn(r, next) ==
    IF r.conn = "open" THEN [r EXCEPT !.step = next] ELSE Thrown(r)

RabbitCreateChannel(c, r) ==
    /\ r \in Running(c)
    /\ r.step = "createChannel"
    /\ rabbit' = Moved(c, r, StepOn(r, "assertExchange"))
    /\ UNCHANGED <<sideVars, instances, now, faults, brokerVars, storeVars, pc, idle, timers, sub,
                   procVars, histVars>>

RabbitAssertExchange(c, r) ==
    /\ r \in Running(c)
    /\ r.step = "assertExchange"
    /\ rabbit' = Moved(c, r, StepOn(r, "assertQueue"))
    /\ topo' = IF r.conn = "open" THEN topo \cup {"exchange"} ELSE topo
    /\ UNCHANGED <<sideVars, instances, now, faults, brokerUp, msgs, storeVars, pc, idle, timers, sub,
                   procVars, histVars>>

RabbitAssertQueue(c, r) ==
    /\ r \in Running(c)
    /\ r.step = "assertQueue"
    /\ rabbit' = Moved(c, r, StepOn(r, "bindQueue"))
    /\ topo' = IF r.conn = "open" THEN topo \cup {"queue"} ELSE topo
    /\ UNCHANGED <<sideVars, instances, now, faults, brokerUp, msgs, storeVars, pc, idle, timers, sub,
                   procVars, histVars>>

\* Mutant: main() allows two unacknowledged messages.
ChannelPrefetchTwo == PrefetchCount + 1

\* Mutant: main() subscribes without setting a prefetch limit.
ChannelPrefetchUnset == PrefetchCount - 1

\* channel.prefetch(1) of main()
ChannelPrefetch == PrefetchCount

\* main() after connectToRabbitMQ has returned: prefetch, then consume, on the
\* channel it was given.
MainSubscribe == [chan |-> "open", prefetch |-> ChannelPrefetch]

\* bindQueue, and on success the return. The call awaited by main() returns into
\* main(), which subscribes in the same turn of the event loop; the value
\* returned to a timer is dropped.
RabbitBindQueue(c, r) ==
    /\ r \in Running(c)
    /\ r.step = "bindQueue"
    /\ IF r.conn = "open"
       THEN /\ topo' = topo \cup {"binding"}
            /\ rabbit' = [rabbit EXCEPT ![c] = @ (-) SetToBag({r})]
            /\ IF r.main
               THEN /\ pc' = [pc EXCEPT ![c] = "running"]
                    /\ sub' = [sub EXCEPT ![c] = MainSubscribe]
                    /\ UNCHANGED idle
               ELSE /\ idle' = [idle EXCEPT ![c] = @ + 1]
                    /\ UNCHANGED <<pc, sub>>
       ELSE /\ rabbit' = Moved(c, r, Thrown(r))
            /\ UNCHANGED <<topo, pc, sub, idle>>
    /\ UNCHANGED <<sideVars, instances, now, faults, brokerUp, msgs, storeVars, timers, procVars,
                   histVars>>

\* The 5 second wait of the catch block, then the next turn of the while loop.
RabbitRetryWait(c, r) ==
    /\ r \in Running(c)
    /\ r.step = "wait"
    /\ rabbit' = Moved(c, r, [r EXCEPT !.step = "connect"])
    /\ UNCHANGED <<sideVars, instances, now, faults, brokerVars, storeVars, pc, idle, timers, sub,
                   procVars, histVars>>

\* A timer armed by an 'error' or 'close' handler fires: a new call of
\* connectToRabbitMQ starts, whose result nobody receives.
ReconnectTimer(c) ==
    /\ timers[c] > 0
    /\ timers' = [timers EXCEPT ![c] = @ - 1]
    /\ rabbit' = [rabbit EXCEPT ![c] =
                     @ (+) SetToBag({[step |-> "connect", conn |-> "none", main |-> FALSE]})]
    /\ UNCHANGED <<sideVars, instances, now, faults, brokerVars, storeVars, pc, idle, sub, procVars,
                   histVars>>

\* ------------------------------------------------------------ consuming

\* The broker may hand process c one more message: c is subscribed on an open
\* channel and holds fewer unacknowledged messages than its prefetch limit (0: no limit).
MayDeliver(c) ==
    /\ brokerUp
    /\ ChannelOpen(c)
    /\ Ready # {}
    /\ sub[c].prefetch = 0 \/ Cardinality(UnackedBy(c)) < sub[c].prefetch

\* The broker delivers the first ready message to process c, and the consume
\* callback runs processMessage up to its first await: parse, stamp with the
\* clock's reading t, and the call of insertOne; a throw before that runs the
\* catch block's nack at once.
Deliver(c, t) ==
    /\ MayDeliver(c)
    /\ t >= now
    /\ now' = t
    /\ LET m == Min(Ready)
           start == ProcessStart(msgs[m].body, t)
           held == [msgs EXCEPT ![m].state = "unacked", ![m].holder = c]
       IN IF start.then = "insertOne"
          THEN /\ msgs' = held
               /\ inflight' = [inflight EXCEPT ![c] = @ \cup
                                  {[msg |-> m, redelivered |-> msgs[m].redelivered,
                                    content |-> start.content, parsedAt |-> t,
                                    written |-> FALSE]}]
               /\ firstStamp' = IF firstStamp[m] = 0
                                THEN [firstStamp EXCEPT ![m] = start.content.received_at]
                                ELSE firstStamp
               /\ UNCHANGED done
          ELSE LET calls == start.calls \o Settle(start.then, TRUE) IN
               /\ msgs' = ApplyCalls(held, m, calls)
               /\ done' = [done EXCEPT ![c] =
                              [msg |-> m, redelivered |-> msgs[m].redelivered,
                               calls |-> calls]]
               /\ UNCHANGED <<inflight, firstStamp>>
    /\ UNCHANGED <<sideVars, instances, faults, brokerUp, topo, storeVars, pc, connVars, sub, exit,
                   insertFailed, lostUnacked, stopUnacked, landedAtOutage>>

\* The promise of processMessage rejects when its catch block throws, that is
\* when the nack throws.
Rejects(calls) == Len(calls) > 0 /\ calls[Len(calls)] = "nack:throw"

\* Mutant: the consume callback drops the promise of processMessage.
ConsumeCallbackNoCatch(calls) == IF Rejects(calls) THEN "unhandled" ELSE "settled"

\* The consume callback: processMessage(...).catch(err => logger.error(...)).
ConsumeCallback(calls) == IF Rejects(calls) THEN "logged" ELSE "settled"

\* An unhandled rejection ends the process with status 1.
Unhandled == [cause |-> "unhandled", code |-> 1, calls |-> <<>>]

\* The process after a processMessage that made these calls has settled.
AfterMessage(c, calls) ==
    IF ConsumeCallback(calls) = "unhandled"
    THEN /\ pc' = [pc EXCEPT ![c] = "exited"]
         /\ exit' = [exit EXCEPT ![c] = Unhandled]
    ELSE UNCHANGED <<pc, exit>>

\* What processMessage does once insertOne has settled, as channel calls.
Resume(c, inserted) == Settle(ProcessResume(inserted), ChannelOpen(c))

\* insertOne resolves: the document is in the collection, and processMessage goes
\* on to log and ack (a throw of the log line would lead to the catch block).
InsertOk(c, r) ==
    /\ r \in inflight[c]
    /\ storeUp
    /\ ~r.written
    /\ store' = Append(store, Written(c, r))
    /\ LET calls == <<"parse:ok", "insertOne:ok">> \o Resume(c, LogEvent(r.content).ok) IN
       /\ msgs' = ApplyCalls(msgs, r.msg, calls)
       /\ done' = [done EXCEPT ![c] =
                      [msg |-> r.msg, redelivered |-> r.redelivered, calls |-> calls]]
       /\ AfterMessage(c, calls)
    /\ inflight' = [inflight EXCEPT ![c] = @ \ {r}]
    /\ UNCHANGED <<sideVars, instances, now, faults, brokerUp, topo, storeUp, indexes, connVars, sub,
                   histVars>>

\* insertOne rejects, because the store is down or because the store went down
\* under this write: the rejection writes nothing, and the catch block nacks with
\* requeue.
InsertFail(c, r) ==
    /\ r \in inflight[c]
    /\ ~storeUp \/ r.written
    /\ LET calls == <<"parse:ok", "insertOne:fail">> \o Resume(c, FALSE) IN
       /\ msgs' = ApplyCalls(msgs, r.msg, calls)
       /\ done' = [done EXCEPT ![c] =
                      [msg |-> r.msg, redelivered |-> r.redelivered, calls |-> calls]]
       /\ AfterMessage(c, calls)
    /\ inflight' = [inflight EXCEPT ![c] = @ \ {r}]
    /\ insertFailed' = insertFailed \cup {r.msg}
    /\ UNCHANGED <<sideVars, instances, now, faults, brokerUp, topo, storeVars, connVars, sub,
                   firstStamp, lostUnacked, stopUnacked, landedAtOutage>>

\* ------------------------------------------------------------ shutdown

\* process.exit: the process is gone, with its timers, its running calls and its
\* connections. An insertOne that was under way may or may not have reached the
\* store (at most one is under way).
ProcessExit(c, landed) ==
    /\ landed \subseteq {r \in inflight[c] : ~r.written}
    /\ Cardinality(landed) <= 1
    /\ store' = IF landed = {} THEN store
                ELSE Append(store, Written(c, CHOOSE r \in landed : TRUE))
    /\ pc' = [pc EXCEPT ![c] = "exited"]
    /\ rabbit' = [rabbit EXCEPT ![c] = EmptyBag]
    /\ timers' = [timers EXCEPT ![c] = 0]
    /\ idle' = [idle EXCEPT ![c] = 0]
    /\ inflight' = [inflight EXCEPT ![c] = {}]
    /\ done' = [done EXCEPT ![c] = NoDone]

\* Mutant: the handler exits with status 0 whatever the closes did.
ExitStatusAlwaysZero(calls) == 0

\* The exit status of the SIGINT handler: 0 at the end of the try block, 1 from
\* the catch block, which a close that throws or rejects leads to.
ExitStatus(calls) ==
    IF \E i \in 1..Len(calls) : calls[i] \in {"rabbit.close:throw", "mongo.close:reject"}
    THEN 1 ELSE 0

Shutdown(calls) == [cause |-> "shutdown", code |-> ExitStatus(calls), calls |-> calls]

\* SIGINT reaches a process whose main() has registered the handler: the handler
\* calls rabbitMQConnection.close() on the connection main() was given. On an
\* open connection the close goes through: the broker requeues what the channel
\* held unacknowledged, and the connection emits 'close'. On a connection that
\* has dropped the call throws, and the catch block exits.
Sigint(c, landed) ==
    /\ pc[c] = "running"
    /\ faults.stops < MaxStops
    /\ faults' = [faults EXCEPT !.stops = @ + 1]
    /\ IF ChannelOpen(c)
       THEN /\ landed = {}
            /\ sub' = [sub EXCEPT ![c].chan = "closed"]
            /\ msgs' = Requeue(msgs, {c})
            /\ stopUnacked' = stopUnacked \cup UnackedBy(c)
            /\ timers' = [timers EXCEPT ![c] = @ + ReconnectsArmed(<<"close">>)]
            /\ pc' = [pc EXCEPT ![c] = "closing_store"]
            /\ exit' = [exit EXCEPT ![c].calls = <<"rabbit.close:ok">>]
            /\ UNCHANGED <<store, rabbit, idle, inflight, done>>
       ELSE /\ ProcessExit(c, landed)
            /\ sub' = [sub EXCEPT ![c] = NoSub]
            /\ exit' = [exit EXCEPT ![c] = Shutdown(<<"rabbit.close:throw">>)]
            /\ UNCHANGED <<msgs, stopUnacked>>
    /\ UNCHANGED <<sideVars, instances, now, brokerUp, topo, storeUp, indexes, firstStamp,
                   insertFailed, lostUnacked, landedAtOutage>>

\* The handler's mongoClient.close() settles, and the handler exits. The close
\* of a client whose store is down may resolve or reject.
CloseStore(c, ok, landed) ==
    /\ pc[c] = "closing_store"
    /\ ok \/ ~storeUp
    /\ ProcessExit(c, landed)
    /\ sub' = [sub EXCEPT ![c] = NoSub]
    /\ exit' = [exit EXCEPT ![c] =
                   Shutdown(Append(exit[c].calls,
                                   IF ok THEN "mongo.close:ok" ELSE "mongo.close:reject"))]
    /\ UNCHANGED <<sideVars, instances, now, faults, brokerVars, storeUp, indexes, histVars>>

\* The deployment starts the process again (restart: unless-stopped).
Restart(c) ==
    /\ pc[c] = "exited"
    /\ pc' = [pc EXCEPT ![c] = "mongo_connect"]
    /\ exit' = [exit EXCEPT ![c] = NoExit]
    /\ UNCHANGED <<sideVars, instances, now, faults, brokerVars, storeVars, connVars, sub, inflight,
                   done, histVars>>

\* ------------------------------------------------------------ viewer

mainVars == <<instances, faults, brokerVars, storeVars, pc, connVars, sub, procVars, histVars>>

\* collection.find({received_at: {$gt: last}}).sort({received_at: 1}).toArray():
\* the documents stamped after last, as positions in the collection, by stamp.
NewChanges(docs, last) ==
    LET S == {i \in 1..Len(docs) : docs[i].doc.received_at > last} IN
    CHOOSE q \in [1..Cardinality(S) -> S] :
        \A j, k \in 1..Cardinality(S) :
            j < k => \/ docs[q[j]].doc.received_at < docs[q[k]].doc.received_at
                     \/ /\ docs[q[j]].doc.received_at = docs[q[k]].doc.received_at
                        /\ q[j] < q[k]

\* Mutant: the poll time kept is the time at which the query returned.
NextCheckTimeAfterQuery(currentTime, returnedAt) == returnedAt

\* lastCheckTime = currentTime: the time sampled before the query.
NextCheckTime(currentTime, returnedAt) == currentTime

\* monitorChanges starts: the viewer has its store handle and reads the clock
\* for the first lastCheckTime.
ViewerStart(t) ==
    /\ viewer.pc = "off"
    /\ storeUp
    /\ t >= now
    /\ now' = t
    /\ viewer' = [pc |-> "sample", lastCheckTime |-> t, currentTime |-> 0,
                  startLen |-> Len(store)]
    /\ UNCHANGED <<mainVars, polls, worker>>

\* A poll begins: currentTime = Date.now() / 1000, and the query is sent.
ViewerSample(t) ==
    /\ viewer.pc = "sample"
    /\ Len(polls) < MaxPolls
    /\ t >= now
    /\ now' = t
    /\ viewer' = [viewer EXCEPT !.pc = "query", !.currentTime = t]
    /\ UNCHANGED <<mainVars, polls, worker>>

\* The query returns what the collection holds now; the viewer displays it and
\* sets lastCheckTime.
ViewerQuery ==
    /\ viewer.pc = "query"
    /\ storeUp
    /\ polls' = Append(polls, [since |-> viewer.lastCheckTime,
                               shown |-> NewChanges(store, viewer.lastCheckTime),
                               seen |-> Len(store)])
    /\ viewer' = [viewer EXCEPT !.pc = "sleep",
                                !.lastCheckTime = NextCheckTime(viewer.currentTime, now)]
    /\ UNCHANGED <<mainVars, now, worker>>

\* The interval between two polls has passed.
ViewerSleep ==
    /\ viewer.pc = "sleep"
    /\ viewer' = [viewer EXCEPT !.pc = "sample"]
    /\ UNCHANGED <<mainVars, now, polls, worker>>

\* ------------------------------------------------------------ test worker

\* The two batch loops: runOperations of upsert_worker, which waits between
\* batches, and runParallelUpserts of parallel_upsert, which does not.
WorkerModes == {"operations", "parallel"}

Concurrencies == 0..MaxConcurrency \cup {DefaultConcurrency}

\* The worker as its batch loop is called: let i = 0, nothing launched yet.
WorkerCalled(mode, numOperations, concurrency) ==
    [pc |-> "connect", mode |-> mode, numOperations |-> numOperations,
     concurrency |-> concurrency, i |-> 0, batchSize |-> 0, launched |-> 0,
     sinceWait |-> 0]

\* Math.min(concurrency, numOperations - i)
BatchSize(concurrency, numOperations, i) ==
    IF concurrency <= numOperations - i THEN concurrency ELSE numOperations - i

\* await connectToMySQL()
WorkerConnect ==
    /\ worker.pc = "connect"
    /\ worker' = [worker EXCEPT !.pc = "loop"]
    /\ UNCHANGED <<mainVars, now, viewer, polls>>

\* The test of the for loop, and one pass of its body up to Promise.all: the
\* inner loop starts batchSize operations one after the other without waiting.
WorkerBatch ==
    /\ worker.pc = "loop"
    /\ worker.i < worker.numOperations
    /\ LET size == BatchSize(worker.concurrency, worker.numOperations, worker.i) IN
       worker' = [worker EXCEPT !.pc = "batch", !.batchSize = size,
                                !.launched = @ + size, !.sinceWait = @ + size]
    /\ UNCHANGED <<mainVars, now, viewer, polls>>

\* Promise.all resolves. runOperations then waits the interval when operations
\* remain; after that the loop's i += concurrency runs.
WorkerBatchDone ==
    /\ worker.pc = "batch"
    /\ worker' = IF /\ worker.mode = "operations"
                    /\ worker.i + worker.batchSize < worker.numOperations
                 THEN [worker EXCEPT !.pc = "sleep"]
                 ELSE [worker EXCEPT !.pc = "loop", !.i = @ + worker.concurrency]
    /\ UNCHANGED <<mainVars, now, viewer, polls>>

\* The wait between two batches is over.
WorkerSleep ==
    /\ worker.pc = "sleep"
    /\ worker' = [worker EXCEPT !.pc = "loop", !.i = @ + worker.concurrency,
                                !.sinceWait = 0]
    /\ UNCHANGED <<mainVars, now, viewer, polls>>

\* The loop ends: finally, connection.end().
WorkerEnd ==
    /\ worker.pc = "loop"
    /\ ~(worker.i < worker.numOperations)
    /\ worker' = [worker EXCEPT !.pc = "done"]
    /\ UNCHANGED <<mainVars, now, viewer, polls>>

\* ------------------------------------------------------------ specification

Next ==
    \/ \E b \in Bodies : Publish(b)
    \/ StoreStop
    \/ \E c \in AllConsumers : \E r \in inflight[c] : StoreStopMidWrite(c, r)
    \/ StoreStart
    \/ BrokerStop
    \/ BrokerStart
    \/ \E c \in AllConsumers : NetworkErrorOnChannel(c)
    \/ \E c \in AllConsumers : \E r \in Running(c) : NetworkErrorOnCall(c, r)
    \/ \E c \in AllConsumers : NetworkErrorOnIdle(c)
    \/ \E c \in AllConsumers : Start(c)
    \/ \E c \in AllConsumers : MongoConnect(c)
    \/ \E c \in AllConsumers : MongoCreateIndex(c)
    \/ \E c \in AllConsumers : MongoRetryWait(c)
    \/ \E c \in AllConsumers : \E r \in Running(c) : RabbitConnect(c, r)
    \/ \E c \in AllConsumers : \E r \in Running(c) : RabbitCreateChannel(c, r)
    \/ \E c \in AllConsumers : \E r \in Running(c) : RabbitAssertExchange(c, r)
    \/ \E c \in AllConsumers : \E r \in Running(c) : RabbitAssertQueue(c, r)
    \/ \E c \in AllConsumers : \E r \in Running(c) : RabbitBindQueue(c, r)
    \/ \E c \in AllConsumers : \E r \in Running(c) : RabbitRetryWait(c, r)
    \/ \E c \in AllConsumers : ReconnectTimer(c)
    \/ \E c \in AllConsumers : \E t \in 1..MaxTime : Deliver(c, t)
    \/ \E c \in AllConsumers : \E r \in inflight[c] : InsertOk(c, r)
    \/ \E c \in AllConsumers : \E r \in inflight[c] : InsertFail(c, r)
    \/ \E c \in AllConsumers : \E landed \in SUBSET inflight[c] : Sigint(c, landed)
    \/ \E c \in AllConsumers : \E ok \in BOOLEAN : \E landed \in SUBSET inflight[c] :
          CloseStore(c, ok, landed)
    \/ \E c \in AllConsumers : Restart(c)

Spec == Init /\ [][Next]_vars

\* The processes may take their steps, the broker delivers what it may, and an
\* outage ends: every timer fires, every awaited I/O call settles.
Fairness ==
    /\ WF_vars(StoreStart)
    /\ WF_vars(BrokerStart)
    /\ \A c \in AllConsumers :
        /\ WF_vars(Start(c))
        /\ WF_vars(MongoConnect(c))
        /\ WF_vars(MongoCreateIndex(c))
        /\ WF_vars(MongoRetryWait(c))
        /\ WF_vars(\E r \in Running(c) : RabbitConnect(c, r))
        /\ WF_vars(\E r \in Running(c) : RabbitCreateChannel(c, r))
        /\ WF_vars(\E r \in Running(c) : RabbitAssertExchange(c, r))
        /\ WF_vars(\E r \in Running(c) : RabbitAssertQueue(c, r))
        /\ WF_vars(\E r \in Running(c) : RabbitBindQueue(c, r))
        /\ WF_vars(\E r \in Running(c) : RabbitRetryWait(c, r))
        /\ WF_vars(ReconnectTimer(c))
        /\ WF_vars(\E t \in 1..MaxTime : Deliver(c, t))
        /\ WF_vars(\E r \in inflight[c] : InsertOk(c, r))
        /\ WF_vars(\E r \in inflight[c] : InsertFail(c, r))
        /\ WF_vars(\E ok \in BOOLEAN : \E landed \in SUBSET inflight[c] :
                       CloseStore(c, ok, landed))
        /\ WF_vars(Restart(c))

FairSpec == Init /\ [][Next]_vars /\ Fairness

\* The steps of a run without failure: no outage, no connection loss, no shutdown.
NextNoFailure ==
    \/ \E b \in Bodies : Publish(b)
    \/ \E c \in AllConsumers : Start(c)
    \/ \E c \in AllConsumers : MongoConnect(c)
    \/ \E c \in AllConsumers : MongoCreateIndex(c)
    \/ \E c \in AllConsumers : \E r \in Running(c) : RabbitConnect(c, r)
    \/ \E c \in AllConsumers : \E r \in Running(c) : RabbitCreateChannel(c, r)
    \/ \E c \in AllConsumers : \E r \in Running(c) : RabbitAssertExchange(c, r)
    \/ \E c \in AllConsumers : \E r \in Running(c) : RabbitAssertQueue(c, r)
    \/ \E c \in AllConsumers : \E r \in Running(c) : RabbitBindQueue(c, r)
    \/ \E c \in AllConsumers : \E t \in 1..MaxTime : Deliver(c, t)
    \/ \E c \in AllConsumers : \E r \in inflight[c] : InsertOk(c, r)

\* Two consumer processes on the same queue, without failure.
FairSpecTwo == InitTwo /\ [][NextNoFailure]_vars /\ Fairness

\* The consumer and the viewer side by side, without failure.
NextViewer ==
    \/ NextNoFailure
    \/ \E t \in 1..MaxTime : ViewerStart(t)
    \/ \E t \in 1..MaxTime : ViewerSample(t)
    \/ ViewerQuery
    \/ ViewerSleep

ViewerSpec == Init /\ [][NextViewer]_vars

\* The test worker called with any arguments within the bounds.
InitWorker ==
    /\ instances = {"c1"}
    /\ NothingRun
    /\ \E mode \in WorkerModes : \E n \in 0..MaxOps : \E k \in Concurrencies :
          worker = WorkerCalled(mode, n, k)

NextWorker ==
    \/ WorkerConnect
    \/ WorkerBatch
    \/ WorkerBatchDone
    \/ WorkerSleep
    \/ WorkerEnd

WorkerSpec == InitWorker /\ [][NextWorker]_vars

\* Every awaited call of the worker settles.
WorkerFairSpec == WorkerSpec /\ WF_vars(NextWorker)

\* ------------------------------------------------------------ properties

Published == 1..Len(msgs)

Parses(m) == JsonParse(msgs[m].body).ok

Acked(m) == msgs[m].state = "acked"

\* The documents of the collection that came from message m.
DocsOf(m) == {i \in 1..Len(store) : store[i].msg = m}

IsAck(call) == call \in {"ack:ok", "ack:throw"}
IsNack(call) == call \in {"nack:ok", "nack:throw"}

\* processMessage of r completes in this step of process c: the process was
\* awaiting insertOne for r's message and no longer is.
Completes(c, r) ==
    /\ r \in inflight[c]
    /\ \A r2 \in inflight'[c] : r2.msg # r.msg

\* C1: a message is acknowledged only after insertOne has succeeded for it: an
\* acknowledged message has a document in the collection, and in the calls of
\* every completed processMessage an ack comes after a successful insertOne.
C1_AckOnlyAfterInsert ==
    /\ \A m \in Published : Acked(m) => DocsOf(m) # {}
    /\ \A c \in AllConsumers : \A i \in 1..Len(done[c].calls) :
          IsAck(done[c].calls[i]) =>
              \E j \in 1..(i - 1) : done[c].calls[j] = "insertOne:ok"

C1_Witness == \E m \in Published : Acked(m)

\* C2: once insertOne has succeeded for a delivery, channel.nack is never invoked
\* for it, also when the ack that follows throws.
C2_NoNackAfterInsert ==
    \A c \in AllConsumers :
        "insertOne:ok" \in Range(done[c].calls) =>
            \A i \in 1..Len(done[c].calls) : ~IsNack(done[c].calls[i])

\* C3: a message whose body does not parse is never inserted and never
\* acknowledged: every processMessage of it, redeliveries included, makes the one
\* call nack, the message stays in the queue, and no document comes from it.
C3_MalformedOnlyNacked ==
    \A m \in Published : ~Parses(m) =>
        /\ DocsOf(m) = {}
        /\ msgs[m].state = "ready"
        /\ \A c \in AllConsumers :
              /\ \A r \in inflight[c] : r.msg # m
              /\ done[c].msg = m => done[c].calls = <<"parse:throw", "nack:ok">>

C3_Witness ==
    \E c \in AllConsumers :
        /\ done[c].msg \in Published
        /\ ~Parses(done[c].msg)
        /\ done[c].redelivered

ChannelLost(c) == sub[c].chan = "closed"

\* C5: a message that parses and whose insertOne failed while the store was down
\* is, once the store is back and as long as the consumer's channel lives (no
\* connection drop, no shutdown), eventually in the collection and acknowledged;
\* it is acknowledged at most once, and until then it stays in the queue.
C5_PersistedAfterOutage ==
    /\ \A m \in 1..MaxMsgs :
          (m \in insertFailed) ~>
              \/ m \in Published /\ Acked(m) /\ DocsOf(m) # {}
              \/ \E c \in instances : ChannelLost(c)
              \/ faults.stops > 0
    /\ [][\A m \in Published :
             /\ Acked(m) => msgs'[m] = msgs[m]
             /\ msgs'[m].state \in {"ready", "unacked", "acked"}]_vars

C5_Witness ==
    \E m \in Published :
        /\ m \in insertFailed
        /\ Acked(m)
        /\ Cardinality(DocsOf(m)) = 1

\* C6: a message that was delivered and unacknowledged when the consumer's
\* broker connection dropped is, once the broker is reachable again, delivered
\* to the consumer again.
C6_RedeliveredAfterReconnect ==
    \A m \in 1..MaxMsgs :
        (m \in lostUnacked) ~> (m \in Published /\ msgs[m].state \in {"unacked", "acked"})

\* C7: without any failure, a message that parses has no document until it is
\* acknowledged and exactly one from then on, whose fields are those of the
\* parsed message plus received_at.
C7_OneDocumentPerEvent ==
    \A m \in Published : (faults = NoFaults /\ Parses(m)) =>
        /\ Cardinality(DocsOf(m)) = IF Acked(m) THEN 1 ELSE 0
        /\ \A i \in DocsOf(m) :
              LET parsed == JsonParse(msgs[m].body).value
                  doc == store[i].doc
              IN /\ DOMAIN doc = DOMAIN parsed \cup {"received_at"}
                 /\ \A k \in DOMAIN parsed : doc[k] = parsed[k]

C7_Witness ==
    /\ faults = NoFaults
    /\ \E m \in Published : Acked(m) /\ msgs[m].body = BodyInsert
    /\ \E m \in Published : Acked(m) /\ msgs[m].body = BodyBare

\* C8: a process has at most one delivered message unresolved: the broker holds
\* at most one message unacknowledged for it, and at most one processMessage is
\* under way in it.
C8_OneUnresolvedDelivery ==
    \A c \in AllConsumers :
        /\ Cardinality(UnackedBy(c)) <= 1
        /\ Cardinality(inflight[c]) <= 1

\* A message waits in the queue behind the one process c has not resolved yet.
C8_Witness ==
    \E c \in AllConsumers :
        /\ brokerUp
        /\ ChannelOpen(c)
        /\ Cardinality(UnackedBy(c)) = 1
        /\ Ready # {}

\* C9: every completed processMessage has invoked exactly one of channel.ack and
\* channel.nack, once.
C9_ExactlyOneResolution ==
    \A c \in AllConsumers : done[c].msg # 0 =>
        Cardinality({i \in 1..Len(done[c].calls) :
                        IsAck(done[c].calls[i]) \/ IsNack(done[c].calls[i])}) = 1

\* C10 as claimed: every document carries the received_at stamped by the first
\* successful parse of its message.
C10_FirstStampKept ==
    \A i \in 1..Len(store) : store[i].doc.received_at = firstStamp[store[i].msg]

\* C10 as amended: every processMessage stamps anew, and a document carries the
\* received_at stamped by the processMessage that inserted it, which is not
\* earlier than the first stamp of its message.
C10_StampOfInsertingAttempt ==
    /\ \A i \in 1..Len(store) :
          /\ store[i].doc.received_at = store[i].parsedAt
          /\ store[i].doc.received_at >= firstStamp[store[i].msg]
    /\ \A c \in AllConsumers : \A r \in inflight[c] :
          /\ r.content.received_at = r.parsedAt
          /\ r.parsedAt >= firstStamp[r.msg]
          /\ firstStamp[r.msg] > 0

C10_Witness ==
    \E i \in 1..Len(store) :
        /\ store[i].msg \in insertFailed
        /\ store[i].doc.received_at > firstStamp[store[i].msg]

\* The processes that have been handed message m and got as far as insertOne.
HandledBy(m) ==
    {c \in AllConsumers : \E r \in inflight[c] : r.msg = m}
        \cup {store[i].by : i \in DocsOf(m)}

\* C11: with two processes on the same queue and no failure, every message that
\* parses is handled by one of them only, has no document until it is
\* acknowledged and exactly one from then on, and is eventually acknowledged
\* (as long as no message that does not parse blocks the head of the queue).
C11_TwoConsumersOneDocument ==
    /\ [](\A m \in Published : Parses(m) =>
             /\ Cardinality(HandledBy(m)) <= 1
             /\ Cardinality(DocsOf(m)) = IF Acked(m) THEN 1 ELSE 0)
    /\ \A m \in 1..MaxMsgs :
          (m \in Published /\ Parses(m)) ~>
              \/ m \in Published /\ Acked(m) /\ Cardinality(DocsOf(m)) = 1
              \/ \E k \in Published : ~Parses(k)

\* Each of the two processes has persisted one of two messages.
C11_Witness ==
    /\ \A m \in Published : Acked(m)
    /\ \E i, j \in 1..Len(store) : store[i].by = "c1" /\ store[j].by = "c2"

\* Only the store has failed under the running consumers: no channel was lost
\* and no process was shut down.
OnlyStoreOutages == faults.stops = 0 /\ \A c \in AllConsumers : ~ChannelLost(c)

\* C12: across store outages, with the consumer's channel alive, every message
\* that parses is eventually in the collection (unless a message that does not
\* parse blocks the queue); a message has at most one document more than there
\* were outages, so at most two across one outage, and it has a second document
\* only if the store went down under a write of it.
C12_AllPersistedAcrossOutage ==
    /\ \A m \in 1..MaxMsgs :
          (m \in Published /\ Parses(m)) ~>
              \/ m \in Published /\ DocsOf(m) # {}
              \/ ~OnlyStoreOutages
              \/ \E k \in Published : ~Parses(k)
    /\ [](OnlyStoreOutages =>
             \A m \in Published :
                /\ Cardinality(DocsOf(m)) <= 1 + faults.live
                /\ Cardinality(DocsOf(m)) > 1 => m \in landedAtOutage)

\* A message has its two documents: one the store applied as it went down, one
\* from the redelivery after the store came back.
C12_Witness ==
    /\ OnlyStoreOutages
    /\ storeUp
    /\ \E m \in Published : Acked(m) /\ Cardinality(DocsOf(m)) = 2

IsRabbitClose(call) == call \in {"rabbit.close:ok", "rabbit.close:throw"}
IsMongoClose(call) == call \in {"mongo.close:ok", "mongo.close:reject"}

\* C13: a process that the SIGINT handler ended has called close on the broker
\* connection and then, if that went through, on the store client, each once at
\* most and in this order, and its exit status is 0 exactly if both closes
\* succeeded, 1 otherwise.
C13_ShutdownExitStatus ==
    \A c \in AllConsumers : exit[c].cause = "shutdown" =>
        LET calls == exit[c].calls IN
        /\ Len(calls) >= 1 /\ IsRabbitClose(calls[1])
        /\ \A i \in 2..Len(calls) : IsMongoClose(calls[i])
        /\ Cardinality({i \in 1..Len(calls) : IsMongoClose(calls[i])}) <= 1
        /\ exit[c].code \in {0, 1}
        /\ exit[c].code = 0 <=> calls = <<"rabbit.close:ok", "mongo.close:ok">>

\* The close of the store client failed after the broker connection was closed.
C13_Witness ==
    \E c \in AllConsumers :
        /\ exit[c].cause = "shutdown"
        /\ exit[c].calls = <<"rabbit.close:ok", "mongo.close:reject">>
        /\ exit[c].code = 1

\* C14: no failure in the handling of a message ends the process or escapes
\* unhandled: the step in which a processMessage settles leaves the process
\* where it was, whatever threw, and a process only ever ends through the
\* shutdown handler.
C14_MessageFailuresContained ==
    [][\A c \in AllConsumers :
          /\ (done'[c] # done[c] /\ done'[c].msg # 0) =>
                (pc'[c] = pc[c] /\ exit'[c] = exit[c])
          /\ (pc'[c] = "exited" /\ pc[c] # "exited") => exit'[c].cause = "shutdown"]_vars

\* An ack and then the nack have thrown, the promise of processMessage was
\* rejected, and the process runs on.
C14_Witness ==
    \E c \in AllConsumers :
        /\ pc[c] = "running"
        /\ "ack:throw" \in Range(done[c].calls)
        /\ Rejects(done[c].calls)

\* A processMessage begins in process c in this step.
Begins(c) ==
    \/ \E r \in inflight'[c] : ~r.written /\ r \notin inflight[c]
    \/ /\ done'[c] # done[c]
       /\ Len(done'[c].calls) > 0
       /\ done'[c].calls[1] = "parse:throw"

\* C15: a process handles its messages one after the other in the order of
\* delivery: a processMessage begins only when none is under way and no message
\* is held unacknowledged, and the documents one process has written are in the
\* collection in the order their messages were delivered.
C15_ProcessedInDeliveryOrder ==
    /\ [][\A c \in AllConsumers :
             Begins(c) => (inflight[c] = {} /\ UnackedBy(c) = {})]_vars
    /\ [](\A i, j \in 1..Len(store) :
             (i < j /\ store[i].by = store[j].by) =>
                 store[i].parsedAt <= store[j].parsedAt)

\* One process has written the documents of two messages delivered at
\* different times.
C15_Witness ==
    \E i, j \in 1..Len(store) :
        /\ i < j
        /\ store[i].by = store[j].by
        /\ store[i].msg # store[j].msg
        /\ store[i].parsedAt < store[j].parsedAt

\* The steps of one attempt of connectToRabbitMQ, in the order of the code.
StepOrder ==
    {<<"connect", "createChannel">>, <<"createChannel", "assertExchange">>,
     <<"assertExchange", "assertQueue">>, <<"assertQueue", "bindQueue">>}

\* What a running call r of connectToRabbitMQ may become in one step: the next
\* step of the attempt on its open connection, the catch block's wait with the
\* connection given up, after the wait the first step of a fresh attempt, or
\* itself with its connection dropped.
MayBecome(r, r2) ==
    \/ /\ <<r.step, r2.step>> \in StepOrder
       /\ r2 = [r EXCEPT !.step = r2.step, !.conn = "open"]
       /\ r.step = "connect" \/ r.conn = "open"
    \/ r.step # "wait" /\ r2 = Thrown(r)
    \/ r.step = "wait" /\ r2 = [r EXCEPT !.step = "connect"]
    \/ r2 = ConnClosed(r)

\* A call of connectToRabbitMQ as main() or a timer starts it.
IsFreshCall(r) == r.step = "connect" /\ r.conn = "none"

\* A call of connectToRabbitMQ in process c returns in this step.
Returns(c) ==
    /\ pc'[c] # "exited"
    /\ BagCardinality(rabbit'[c]) < BagCardinality(rabbit[c])

FullTopology == {"exchange", "queue", "binding"}

\* C16: a call of connectToRabbitMQ goes through connect, createChannel,
\* assertExchange, assertQueue and bindQueue in this order, each on the open
\* connection of the same attempt; a step that fails leads to the wait and then
\* to a fresh attempt from connect on, always; and the call returns only from a
\* bindQueue that succeeded, never with a failure.
C16_RabbitConnectNeverFails ==
    /\ [][\A c \in AllConsumers :
             /\ \A r2 \in BagToSet(rabbit'[c]) \ Running(c) :
                   IsFreshCall(r2) \/ \E r \in Running(c) : MayBecome(r, r2)
             /\ Returns(c) =>
                   \E r \in Running(c) :
                      /\ r.step = "bindQueue" /\ r.conn = "open"
                      /\ rabbit'[c] = rabbit[c] (-) SetToBag({r})
                      /\ FullTopology \subseteq topo'
                      /\ r.main => sub'[c].chan = "open"]_vars
    /\ [](\A c \in AllConsumers :
             /\ \A r \in Running(c) :
                   /\ r.step \in {"connect", "wait"} => r.conn = "none"
                   /\ r.step \in {"assertQueue", "bindQueue"} => "exchange" \in topo
                   /\ r.step = "bindQueue" => "queue" \in topo
                   /\ r.step = "wait" => ENABLED RabbitRetryWait(c, r)
             /\ (sub[c].chan # "none" \/ idle[c] > 0) => FullTopology \subseteq topo)

\* The call main() awaits has returned after an attempt of it had failed: the
\* process consumes, and a timer, a call or a connection of a reconnect is there.
C16_Witness ==
    \E c \in AllConsumers :
        /\ faults.stops = 0
        /\ pc[c] = "running"
        /\ ChannelOpen(c)
        /\ timers[c] + idle[c] + BagCardinality(rabbit[c]) > 0

AllIndexes == {"database_table", "data.id", "ts"}

\* The positions of main() inside connectToMongoDB.
InMongoConnect ==
    {"mongo_connect", "mongo_index1", "mongo_index2", "mongo_index3", "mongo_wait"}

\* Where a step of connectToMongoDB leads when the store answers.
MongoSuccessor(step) ==
    CASE step = "mongo_connect" -> "mongo_index1"
      [] step = "mongo_wait" -> "mongo_connect"
      [] OTHER -> AfterIndex(step)

\* C17: connectToMongoDB returns only after connect and the three createIndex
\* calls have succeeded, in this order; a step that fails leads to the wait and
\* then to a fresh attempt from connect on, always; and until it has returned the
\* process has no broker connection, no subscription and no message.
C17_MongoConnectThenConsume ==
    /\ [](\A c \in AllConsumers :
             /\ pc[c] \in {"rabbit", "running", "closing_store"} => indexes = AllIndexes
             /\ pc[c] \in {"mongo_index2", "mongo_index3"} => "database_table" \in indexes
             /\ pc[c] = "mongo_index3" => "data.id" \in indexes
             /\ pc[c] = "mongo_wait" => ENABLED MongoRetryWait(c)
             /\ pc[c] \in InMongoConnect \cup {"off"} =>
                   /\ rabbit[c] = EmptyBag /\ timers[c] = 0 /\ idle[c] = 0
                   /\ sub[c] = NoSub
                   /\ inflight[c] = {} /\ done[c] = NoDone /\ UnackedBy(c) = {})
    /\ [][\A c \in AllConsumers :
             (pc[c] \in InMongoConnect /\ pc'[c] # pc[c]) =>
                 pc'[c] = IF storeUp \/ pc[c] = "mongo_wait"
                          THEN MongoSuccessor(pc[c]) ELSE "mongo_wait"]_vars

\* An attempt has failed after some of the indexes were created, and the
\* process waits for the next attempt.
C17_Witness ==
    \E c \in AllConsumers :
        /\ pc[c] = "mongo_wait"
        /\ indexes # {}
        /\ indexes # AllIndexes

\* C18: every step in which connections of a running process drop arms at least
\* one reconnect timer for each, whether the drop fires 'close' alone or 'error'
\* and 'close', and an armed timer can always fire; what the dropped channel held
\* unacknowledged is ready in the queue again; and while the process's channel
\* is down nothing is delivered to it and no message leaves the queue: a message
\* changes only between ready, held and acknowledged, and a held one is held on
\* an open channel.
C18_DropArmsReconnect ==
    /\ [][\A c \in AllConsumers :
             /\ (OpenCount(c)' < OpenCount(c) /\ pc'[c] # "exited") =>
                   timers'[c] >= timers[c] + (OpenCount(c) - OpenCount(c)')
             /\ (ChannelOpen(c) /\ ~ChannelOpen(c)') =>
                   \A m \in UnackedBy(c) : msgs'[m].state = "ready"
             /\ ~ChannelOpen(c) => UnackedBy(c)' = {}]_vars
    /\ [][/\ Len(msgs') >= Len(msgs)
          /\ \A m \in Published :
                /\ msgs'[m].body = msgs[m].body
                /\ msgs[m].state = "acked" => msgs'[m].state = "acked"]_vars
    /\ [](\A c \in AllConsumers :
             /\ timers[c] > 0 => ENABLED ReconnectTimer(c)
             /\ ~ChannelOpen(c) => UnackedBy(c) = {})

\* The channel of a running process has dropped under a message: the message is
\* ready in the queue, and a reconnect is armed or under way.
C18_Witness ==
    \E c \in AllConsumers : \E m \in lostUnacked :
        /\ faults.stops = 0
        /\ pc[c] = "running"
        /\ ChannelLost(c)
        /\ msgs[m].state = "ready"
        /\ timers[c] + BagCardinality(rabbit[c]) > 0

\* A call made on a channel or connection that has already emitted 'error' or
\* 'close': it is the calls on a closed channel or connection that throw.
OnDroppedConnection(call) == call \in {"ack:throw", "nack:throw", "rabbit.close:throw"}

\* C19: no operation is issued on a connection or channel that has dropped: no
\* processMessage calls ack or nack on a closed channel, and the SIGINT handler
\* does not call close on a closed connection.
C19_NoUseAfterError ==
    \A c \in AllConsumers :
        /\ \A i \in 1..Len(done[c].calls) : ~OnDroppedConnection(done[c].calls[i])
        /\ \A i \in 1..Len(exit[c].calls) : ~OnDroppedConnection(exit[c].calls[i])

\* Process c is consuming and its channel has dropped: it receives nothing more.
Deaf(c) == pc[c] = "running" /\ ChannelLost(c)

\* C20: what a process holds unacknowledged when the SIGINT handler closes its
\* broker connection goes back to the queue marked redelivered, and the process
\* holds and acknowledges nothing from then on; the message stays in the queue
\* until it is acknowledged, which needs a document of it; and it is delivered
\* again once a process consumes from the queue again, unless that process loses
\* its channel.
C20_InFlightAtShutdownRedelivered ==
    /\ [][\A c \in AllConsumers :
             /\ (pc[c] = "running" /\ pc'[c] = "closing_store") =>
                   \A m \in UnackedBy(c) :
                      /\ m \in stopUnacked'
                      /\ msgs'[m].state = "ready"
                      /\ msgs'[m].redelivered
             /\ pc[c] = "closing_store" =>
                   \A m \in Published : Acked(m)' => Acked(m)]_vars
    /\ [](\A c \in AllConsumers :
             pc[c] \in {"closing_store", "exited"} => UnackedBy(c) = {})
    /\ [](\A m \in stopUnacked :
             /\ m \in Published
             /\ msgs[m].state \in {"ready", "unacked", "acked"}
             /\ msgs[m].redelivered
             /\ Acked(m) => DocsOf(m) # {})
    /\ \A m \in 1..MaxMsgs :
          (m \in stopUnacked) ~>
              \/ m \in Published /\ msgs[m].state \in {"unacked", "acked"}
              \/ \E c \in instances : Deaf(c)

\* A message that was in flight at a shutdown is held by the restarted process.
C20_Witness ==
    \E c \in AllConsumers : \E m \in stopUnacked :
        /\ pc[c] = "running"
        /\ ChannelOpen(c)
        /\ m \in UnackedBy(c)
        /\ msgs[m].redelivered

\* The fields the log line of processMessage reads.
LoggedFields == {"database", "table", "type"}

\* Message m parses to an event that lacks one of the logged fields.
LacksFields(m) ==
    /\ Parses(m)
    /\ ~(LoggedFields \subseteq DOMAIN JsonParse(msgs[m].body).value)

\* C21: a message that parses and lacks database, table or type is handled as
\* any valid message: its log line says "unknown" for what is missing, the
\* processMessage whose insertOne succeeded on an open channel calls ack and
\* nothing else, a nack of it comes only with a failed insertOne or a closed
\* channel, and its document is the parsed event plus received_at.
C21_MissingFieldsPersisted ==
    /\ [][\A c \in AllConsumers : \A r \in inflight[c] :
             (Completes(c, r) /\ done'[c].msg = r.msg /\ LacksFields(r.msg)) =>
                 LET calls == done'[c].calls IN
                 /\ \A k \in LoggedFields \ DOMAIN r.content :
                       \E i \in 1..3 : LogEvent(r.content).line[i] = "unknown"
                 /\ ("insertOne:ok" \in Range(calls) /\ ChannelOpen(c)) =>
                       /\ calls = <<"parse:ok", "insertOne:ok", "ack:ok">>
                       /\ Acked(r.msg)'
                       /\ store' = Append(store, Written(c, r))
                 /\ (\E i \in 1..Len(calls) : IsNack(calls[i])) =>
                       "insertOne:fail" \in Range(calls) \/ ~ChannelOpen(c)]_vars
    /\ [](\A i \in 1..Len(store) :
             LET m == store[i].msg IN
             LacksFields(m) =>
                 /\ DOMAIN store[i].doc = DOMAIN JsonParse(msgs[m].body).value
                                              \cup {"received_at"}
                 /\ \A k \in DOMAIN JsonParse(msgs[m].body).value :
                       store[i].doc[k] = JsonParse(msgs[m].body).value[k])

\* A message without database, table and type is in the collection and
\* acknowledged.
C21_Witness ==
    \E m \in Published :
        /\ LacksFields(m)
        /\ Acked(m)
        /\ DocsOf(m) # {}

\* C22: the poll that returns has selected exactly the documents whose
\* received_at is greater than the lastCheckTime it started with, in the order
\* of their stamps, and leaves as lastCheckTime the time it sampled before its
\* query, which is not later than the time the query returned.
C22_PollSelectsSinceLastCheck ==
    /\ [][(viewer.pc = "query" /\ viewer'.pc # "query") =>
             LET p == polls'[Len(polls')] IN
             /\ Len(polls') = Len(polls) + 1
             /\ Range(p.shown) =
                    {i \in 1..Len(store) : store[i].doc.received_at > viewer.lastCheckTime}
             /\ Len(p.shown) = Cardinality(Range(p.shown))
             /\ \A j \in 1..Len(p.shown) - 1 :
                   store[p.shown[j]].doc.received_at <= store[p.shown[j + 1]].doc.received_at
             /\ viewer'.lastCheckTime = viewer.currentTime]_vars
    /\ [](viewer.pc = "query" =>
             /\ viewer.currentTime <= now
             /\ viewer.lastCheckTime <= viewer.currentTime)
    /\ [][viewer.pc # "query" => viewer'.lastCheckTime = viewer.lastCheckTime
                                   \/ viewer.pc = "off"]_vars

\* A poll has returned some documents of the collection and left others out,
\* after the clock had moved on during its query.
C22_Witness ==
    /\ viewer.pc = "sleep"
    /\ viewer.lastCheckTime < now
    /\ \E k \in 1..Len(polls) :
          /\ polls[k].shown # <<>>
          /\ Len(polls[k].shown) < polls[k].seen

\* C23: upsert_worker run with --operations and --interval alone (the default
\* concurrency) never has two operations started without a wait between them.
C23_WaitBetweenOperations ==
    (worker.pc # "off" /\ worker.mode = "operations"
        /\ worker.concurrency = DefaultConcurrency) =>
        worker.sinceWait <= 1

\* The polls that displayed the document at position i of the collection.
ShownIn(i) == {k \in 1..Len(polls) : i \in Range(polls[k].shown)}

\* The documents inserted since the viewer started.
SinceViewerStarted ==
    IF viewer.pc = "off" THEN {} ELSE (viewer.startLen + 1)..Len(store)

\* C28: a document inserted after the viewer started is displayed by one poll
\* only, and none is passed over: a document that no later poll can select,
\* its stamp being no greater than lastCheckTime, has been displayed.
C28_EachDocumentShownOnce ==
    \A i \in SinceViewerStarted :
        /\ Cardinality(ShownIn(i)) <= 1
        /\ store[i].doc.received_at <= viewer.lastCheckTime => ShownIn(i) # {}

\* C29: for every numOperations >= 0 and every concurrency >= 0 the batch loop
\* ends, having launched numOperations operations in all, and no batch is larger
\* than concurrency.
C29_BatchLoopsTerminate ==
    /\ [](worker.batchSize <= worker.concurrency)
    /\ <>(worker.pc = "done" /\ worker.launched = worker.numOperations)

\* C24: a process holds at most one open broker connection at any time.
C24_AtMostOneConnection ==
    \A c \in AllConsumers : OpenCount(c) <= 1

\* The SIGINT handler of process c runs in this step.
ShutdownBegins(c) == pc[c] = "running" /\ pc'[c] \in {"closing_store", "exited"}

\* C25: a shutdown that begins with broker and store healthy closes the broker
\* connection without failure, whatever drops and reconnects came before, and
\* leaves no broker connection of the process open.
C25_ShutdownClosesEveryConnection ==
    [][\A c \in AllConsumers :
          (ShutdownBegins(c) /\ brokerUp /\ storeUp) =>
              /\ pc'[c] = "closing_store"
              /\ exit'[c].calls = <<"rabbit.close:ok">>
              /\ OpenCount(c)' = 0]_vars

\* C26: a process whose SIGINT handler failed to close the broker connection has
\* still called close on the store client before it exited.
C26_StoreClosedWhenBrokerCloseFails ==
    \A c \in AllConsumers :
        (exit[c].cause = "shutdown" /\ "rabbit.close:throw" \in Range(exit[c].calls)) =>
            \E i \in 1..Len(exit[c].calls) : IsMongoClose(exit[c].calls[i])

\* C27: the SIGINT handler's close of the broker connection arms no reconnect
\* timer, and while the handler runs no call of connectToRabbitMQ starts and no
\* connection is opened.
C27_NoReconnectOnceShutdownBegan ==
    [][\A c \in AllConsumers :
          /\ (ShutdownBegins(c) /\ pc'[c] = "closing_store") => timers'[c] = timers[c]
          /\ pc[c] = "closing_store" =>
                /\ BagCardinality(rabbit'[c]) <= BagCardinality(rabbit[c])
                /\ OpenCount(c)' <= OpenCount(c)]_vars

====
